---- MODULE Spec2Model ----
(***************************************************************************)
(* Model of scared.analysis.BaseAnalysis: the batched analysis engine, its *)
(* batch-size derivation and its convergence bookkeeping.                  *)
(*                                                                         *)
(* The engine object is the record `self`; every method of the class is an *)
(* operator from an engine record (and arguments) to the engine record     *)
(* after the call.  A raised exception is recorded in the field `exc`, and *)
(* a caller that sees it set returns at once, as Python unwinds.           *)
(***************************************************************************)
EXTENDS Integers, Sequences, FiniteSets

(* ------------------------------ bounds -------------------------------- *)

\* Spec (every call, in any order): the largest number of traces one engine
\* folds, the largest convergence_step, the largest default batch size of a
\* container and the largest number of run calls on one engine.
MaxTraces == 4
MaxStep == 3
MaxBatch == 2
MaxRuns == 2
\* SpecRun (an engine driven through run alone): the same four bounds.
MaxTracesR == 10
MaxStepR == 5
MaxBatchR == 3
MaxRunsR == 2
\* Sample values of a trace are 1..MaxVal.
MaxVal == 1
\* Largest number of direct process / compute_convergence / compute_results
\* calls (calls made outside run) on one engine.
MaxManual == 2
\* Ranges of the batch-size derivation checked on its own (SpecBatch).
MaxStepB == 24
MaxBatchB == 24

(* --------------------------- value encodings -------------------------- *)

\* convergence_step=None; `if self.convergence_step:` reads None and 0 alike.
None == 0
\* No exception is propagating.
NoExc == "none"
\* Significand width of the float that `/` produces.
MantBits == 53

TraceVals == 1..MaxVal

\* results / scores before the first compute_results.
NoneArray == [kind |-> "None", num |-> 0, den |-> 0]
\* What a distinguisher that tolerates a reduction of no data returns.
EmptyArray == [kind |-> "Empty", num |-> 0, den |-> 0]

VARIABLES
    self,        \* the engine object (BaseAnalysis instance)
    variant,     \* distinguisher behaviour on reduce before any fold: "fail" | "empty"
    pc,          \* "idle": no call in progress; "loop": inside run's for loop
    container,   \* argument of the run call in progress (NoContainer outside run)
    batch_size,  \* run's local batch_size (1 outside run)
    remaining,   \* traces the container's batches() has still to yield
    folded,      \* history: how many traces of each sample value were folded
    last,        \* history: the last completed call and whether it raised
    runs,        \* history: number of run calls that passed the type check
    manual       \* history: number of process / compute_convergence /
                 \* compute_results calls made directly, outside run

vars == <<self, variant, pc, container, batch_size, remaining, folded, last, runs, manual>>

(* ------------------------------ helpers ------------------------------- *)

RECURSIVE SumSeq(_)
SumSeq(s) == IF s = <<>> THEN 0 ELSE Head(s) + SumSeq(Tail(s))

RECURSIVE Log2Floor(_)
Log2Floor(n) == IF n <= 1 THEN 0 ELSE 1 + Log2Floor(n \div 2)

Min(a, b) == IF a <= b THEN a ELSE b

\* All sequences of length k over TraceVals.
SeqsOfLen(k) == [1..k -> TraceVals]

(* ---------------- collaborators outside analysis.py ------------------- *)

\* selection_function(**metadata): an intermediate value per trace.
SelectionFunction(m) == m + 1

\* model(...): HammingWeight-like leakage of a 3-bit intermediate value.
Model(v) == (v % 2) + ((v \div 2) % 2) + ((v \div 4) % 2)

\* A TraceHeaderSet batch: samples and metadatas, one entry per trace.
Batch(vs) == [samples |-> vs, metadatas |-> vs]

\* discriminant(results): scores from results.
Discriminant(r) ==
    IF r.kind = "Value" THEN [kind |-> "Value", num |-> r.num * r.num, den |-> r.den * r.den]
    ELSE r

\* DistinguisherMixin.update: fold one batch into the accumulator and count it.
update(s, data, traces) ==
    [s EXCEPT !.processed_traces = @ + Len(traces),
              !.accumulator = @ + SumSeq([i \in 1..Len(traces) |-> data[i] * traces[i]]),
              !.reduced = FALSE]

\* DistinguisherMixin.compute: reduce the accumulator, without changing it.
\* Gives the exception raised (NoExc if none) and the array returned.
compute(s) ==
    IF s.processed_traces = 0
    THEN IF variant = "fail"
         THEN [exc |-> "DistinguisherError", value |-> NoneArray]
         ELSE [exc |-> NoExc, value |-> EmptyArray]
    ELSE [exc |-> NoExc,
          value |-> [kind |-> "Value", num |-> s.accumulator, den |-> s.processed_traces]]

\* The reduction of all the traces of the history `folded`, folded in one call.
OneShotResults ==
    LET n == SumSeq([v \in TraceVals |-> folded[v]])
        a == SumSeq([v \in TraceVals |-> folded[v] * Model(SelectionFunction(v)) * v])
    IN  IF n = 0 THEN EmptyArray ELSE [kind |-> "Value", num |-> a, den |-> n]

(* --------------------------- BaseAnalysis ----------------------------- *)

\* __init__ / _set_convergence: the engine right after construction.
NewAnalysis(c) ==
    [processed_traces   |-> 0,
     accumulator        |-> 0,
     convergence_step   |-> c,
     convergence_traces |-> [alloc |-> FALSE, slices |-> <<>>],
     _batches_processed |-> <<0>>,
     scores             |-> NoneArray,
     results            |-> NoneArray,
     exc                |-> NoExc,
     reduced            |-> FALSE,    \* history: compute ran since the last update
     slice_at           |-> <<>>]     \* history: processed_traces at each appended slice

\* round(c / q) in place of int(c / q).
TrueDivInt_rounded(c, q) ==
    LET n == c \div q
        r == c % q
    IN  IF 2 * r >= q /\ r # 0 THEN n + 1 ELSE n

\* int(c / q) for positive integers: the quotient rounded to the nearest float
\* of MantBits significant bits (ties to even), then truncated.  With
\* n = c // q and r = c % q > 0 the quotient n + r/q lies in [2^e, 2^(e+1)),
\* e = floor(log2 n), where floats are 2^(e+1-MantBits) apart; it rounds up to
\* the integer n + 1 iff (q - r)/q <= 2^(e-MantBits), i.e. iff
\* 2^(MantBits-e) <= q // (q - r).
TrueDivInt(c, q) ==
    LET n == c \div q
        r == c % q
    IN  IF r # 0 /\ MantBits - Log2Floor(n) <= Log2Floor(q \div (q - r))
        THEN n + 1
        ELSE n

\* The number of batches per step rounded up, not down.
_compute_batch_size_ceil(s, base_batch_size) ==
    IF s.convergence_step # None
    THEN IF base_batch_size >= s.convergence_step
         THEN s.convergence_step
         ELSE TrueDivInt(s.convergence_step,
                         (s.convergence_step + base_batch_size - 1) \div base_batch_size)
    ELSE base_batch_size

\* No cap of the batch size at convergence_step.
_compute_batch_size_uncapped(s, base_batch_size) ==
    IF s.convergence_step # None /\ base_batch_size < s.convergence_step
    THEN TrueDivInt(s.convergence_step, s.convergence_step \div base_batch_size)
    ELSE base_batch_size

_compute_batch_size(s, base_batch_size) ==
    IF s.convergence_step # None
    THEN IF base_batch_size >= s.convergence_step
         THEN s.convergence_step
         ELSE TrueDivInt(s.convergence_step, s.convergence_step \div base_batch_size)
    ELSE base_batch_size

\* compute_results that consumes the accumulator it reduces.
compute_results_consuming(s) ==
    LET r == compute(s)
    IN  IF r.exc # NoExc THEN [s EXCEPT !.exc = r.exc]
        ELSE [s EXCEPT !.results = r.value,
                       !.scores = Discriminant(r.value),
                       !.reduced = TRUE,
                       !.accumulator = 0]

\* compute_results that also records the scores in the ConvergenceTrace.
compute_results_recording(s) ==
    LET r == compute(s)
    IN  IF r.exc # NoExc THEN [s EXCEPT !.exc = r.exc]
        ELSE [s EXCEPT !.results = r.value,
                       !.scores = Discriminant(r.value),
                       !.reduced = TRUE,
                       !.convergence_traces.slices =
                            IF s.convergence_traces.alloc THEN Append(@, Discriminant(r.value)) ELSE @]

compute_results(s) ==
    LET r == compute(s)
    IN  IF r.exc # NoExc THEN [s EXCEPT !.exc = r.exc]
        ELSE [s EXCEPT !.results = r.value,
                       !.scores = Discriminant(r.value),
                       !.reduced = TRUE]

\* np.append(None, ...) along an axis raises ValueError.
_compute_convergence_traces(s) ==
    IF ~s.convergence_traces.alloc
    THEN [s EXCEPT !.exc = "ValueError"]
    ELSE [s EXCEPT !.convergence_traces.slices = Append(@, s.scores),
                   !.slice_at = Append(@, s.processed_traces)]

\* The slice appended before the results are recomputed.
compute_convergence_stale(s) ==
    IF s.convergence_step # None
    THEN LET s1 == [s EXCEPT !._batches_processed = Append(@, s.processed_traces)]
             bp == s1._batches_processed
         IN  IF bp[Len(bp)] - bp[1] >= s1.convergence_step
             THEN LET s2 == [s1 EXCEPT !._batches_processed = <<bp[Len(bp)]>>]
                      s3 == _compute_convergence_traces(s2)
                  IN  IF s3.exc # NoExc THEN s3 ELSE compute_results(s3)
             ELSE s1
    ELSE s

\* The marks never reset when a checkpoint fires.
compute_convergence_no_reset(s) ==
    IF s.convergence_step # None
    THEN LET s1 == [s EXCEPT !._batches_processed = Append(@, s.processed_traces)]
             bp == s1._batches_processed
         IN  IF bp[Len(bp)] - bp[1] >= s1.convergence_step
             THEN LET s3 == compute_results(s1)
                  IN  IF s3.exc # NoExc THEN s3 ELSE _compute_convergence_traces(s3)
             ELSE s1
    ELSE s

\* The span restarted with an empty list.
compute_convergence_empty_reset(s) ==
    IF s.convergence_step # None
    THEN LET s1 == [s EXCEPT !._batches_processed = Append(@, s.processed_traces)]
             bp == s1._batches_processed
         IN  IF bp[Len(bp)] - bp[1] >= s1.convergence_step
             THEN LET s2 == [s1 EXCEPT !._batches_processed = <<>>]
                      s3 == compute_results(s2)
                  IN  IF s3.exc # NoExc THEN s3 ELSE _compute_convergence_traces(s3)
             ELSE s1
    ELSE s

\* `>` in place of `>=` in the span test.
compute_convergence_strict(s) ==
    IF s.convergence_step # None
    THEN LET s1 == [s EXCEPT !._batches_processed = Append(@, s.processed_traces)]
             bp == s1._batches_processed
         IN  IF bp[Len(bp)] - bp[1] > s1.convergence_step
             THEN LET s2 == [s1 EXCEPT !._batches_processed = <<bp[Len(bp)]>>]
                      s3 == compute_results(s2)
                  IN  IF s3.exc # NoExc THEN s3 ELSE _compute_convergence_traces(s3)
             ELSE s1
    ELSE s

compute_convergence(s) ==
    IF s.convergence_step # None
    THEN LET s1 == [s EXCEPT !._batches_processed = Append(@, s.processed_traces)]
             bp == s1._batches_processed
         IN  IF bp[Len(bp)] - bp[1] >= s1.convergence_step
             THEN LET s2 == [s1 EXCEPT !._batches_processed = <<bp[Len(bp)]>>]
                      s3 == compute_results(s2)
                  IN  IF s3.exc # NoExc THEN s3 ELSE _compute_convergence_traces(s3)
             ELSE s1
    ELSE s

\* The final slice restarting the span, as a checkpoint does.
_final_compute_resetting(s) ==
    LET s1 == compute_results(s)
        bp == s1._batches_processed
    IN  IF s1.exc # NoExc THEN s1
        ELSE IF s1.convergence_step # None /\ Len(bp) > 1
             THEN _compute_convergence_traces([s1 EXCEPT !._batches_processed = <<bp[Len(bp)]>>])
             ELSE s1

\* The final reduction made only when convergence is tracked.
_final_compute_tracked_only(s) ==
    IF s.convergence_step = None THEN s
    ELSE LET s1 == compute_results(s)
         IN  IF s1.exc # NoExc THEN s1
             ELSE IF Len(s1._batches_processed) > 1
                  THEN _compute_convergence_traces(s1)
                  ELSE s1

\* The final slice appended only when a full convergence step has passed.
_final_compute_full_step(s) ==
    LET s1 == compute_results(s)
        bp == s1._batches_processed
    IN  IF s1.exc # NoExc THEN s1
        ELSE IF s1.convergence_step # None /\ bp[Len(bp)] - bp[1] >= s1.convergence_step
             THEN _compute_convergence_traces(s1)
             ELSE s1

_final_compute(s) ==
    LET s1 == compute_results(s)
    IN  IF s1.exc # NoExc THEN s1
        ELSE IF s1.convergence_step # None /\ Len(s1._batches_processed) > 1
             THEN _compute_convergence_traces(s1)
             ELSE s1

compute_intermediate_values(s, metadata) ==
    [i \in 1..Len(metadata) |-> Model(SelectionFunction(metadata[i]))]

\* process that also records a mark, as run's loop does after it.
process_marking(s, traces_batch) ==
    LET intermediate_values == compute_intermediate_values(s, traces_batch.metadatas)
        s1 == IF ~s.convergence_traces.alloc /\ s.convergence_step # None
              THEN [s EXCEPT !.convergence_traces = [alloc |-> TRUE, slices |-> <<>>]]
              ELSE s
    IN  compute_convergence(update(s1, intermediate_values, traces_batch.samples))

\* process that returns once it has allocated the ConvergenceTrace.
process_alloc_returns(s, traces_batch) ==
    LET intermediate_values == compute_intermediate_values(s, traces_batch.metadatas)
    IN  IF ~s.convergence_traces.alloc /\ s.convergence_step # None
        THEN [s EXCEPT !.convergence_traces = [alloc |-> TRUE, slices |-> <<>>]]
        ELSE update(s, intermediate_values, traces_batch.samples)

\* process that allocates the ConvergenceTrace whatever convergence_step is.
process_alloc_always(s, traces_batch) ==
    LET intermediate_values == compute_intermediate_values(s, traces_batch.metadatas)
        s1 == IF ~s.convergence_traces.alloc
              THEN [s EXCEPT !.convergence_traces = [alloc |-> TRUE, slices |-> <<>>]]
              ELSE s
    IN  update(s1, intermediate_values, traces_batch.samples)

process(s, traces_batch) ==
    LET intermediate_values == compute_intermediate_values(s, traces_batch.metadatas)
        s1 == IF ~s.convergence_traces.alloc /\ s.convergence_step # None
              THEN [s EXCEPT !.convergence_traces = [alloc |-> TRUE, slices |-> <<>>]]
              ELSE s
    IN  update(s1, intermediate_values, traces_batch.samples)

\* Container.batches(batch_size): the size of the next batch yielded.
NextBatchLen == Min(batch_size, remaining)

(* ------------------------------ actions ------------------------------- *)

\* The engine once a call has returned or raised: the exception has left it.
Leave(s) == [s EXCEPT !.exc = NoExc]

\* A source handed to run: a Container, or some other object.
NoContainer == [is_container |-> TRUE, ntraces |-> 0, batch_size |-> 1]
NotAContainer == [is_container |-> FALSE, ntraces |-> 0, batch_size |-> 1]

Done(op, s) == [op |-> op, raised |-> s.exc # NoExc]

AddFolded(vs) == [v \in TraceVals |-> folded[v] + Cardinality({i \in 1..Len(vs) : vs[i] = v})]

InitWith(maxStep) ==
    /\ \E c \in {None} \cup (1..maxStep) : self = NewAnalysis(c)
    /\ variant \in {"fail", "empty"}
    /\ pc = "idle"
    /\ container = NoContainer
    /\ batch_size = 1
    /\ remaining = 0
    /\ folded = [v \in TraceVals |-> 0]
    /\ last = [op |-> "init", raised |-> FALSE]
    /\ runs = 0
    /\ manual = 0

Init == InitWith(MaxStep)

\* run(container), lines 122-126: the type check and the batch-size derivation.
RunStartWith(maxTraces, maxBatch, maxRuns) ==
    /\ pc = "idle"
    /\ runs < maxRuns
    /\ \E n \in 0..(maxTraces - self.processed_traces), b \in 1..maxBatch :
         /\ container' = [is_container |-> TRUE, ntraces |-> n, batch_size |-> b]
         /\ batch_size' = _compute_batch_size(self, b)
         /\ remaining' = n
    /\ self' = self
    /\ pc' = "loop"
    /\ runs' = runs + 1
    /\ UNCHANGED <<variant, folded, last, manual>>

RunStart == RunStartWith(MaxTraces, MaxBatch, MaxRuns)

\* run that reports the wrong type only after its final reduction.
RunTypeError_late ==
    /\ pc = "idle"
    /\ \E arg \in {NotAContainer} : ~arg.is_container
    /\ self' = Leave(_final_compute(self))
    /\ last' = [op |-> "run", raised |-> TRUE]
    /\ UNCHANGED <<variant, pc, container, batch_size, remaining, folded, runs, manual>>

\* run(container), lines 122-123: the argument is no Container.
RunTypeError ==
    /\ pc = "idle"
    /\ \E arg \in {NotAContainer} : ~arg.is_container
    /\ self' = self
    /\ last' = [op |-> "run", raised |-> TRUE]
    /\ UNCHANGED <<variant, pc, container, batch_size, remaining, folded, runs, manual>>

\* run(container), lines 127-130: one iteration of the loop.
RunBatch ==
    /\ pc = "loop"
    /\ remaining > 0
    /\ \E vs \in SeqsOfLen(NextBatchLen) :
         /\ self' = Leave(compute_convergence(process(self, Batch(vs))))
         /\ folded' = AddFolded(vs)
    /\ remaining' = remaining - NextBatchLen
    /\ UNCHANGED <<variant, pc, container, batch_size, last, runs, manual>>

\* run(container), lines 131-133: the source is exhausted.
RunFinal ==
    /\ pc = "loop"
    /\ remaining = 0
    /\ self' = Leave(_final_compute(self))
    /\ pc' = "idle"
    /\ last' = Done("run", _final_compute(self))
    /\ container' = NoContainer
    /\ batch_size' = 1
    /\ UNCHANGED <<variant, remaining, folded, runs, manual>>

\* process(traces_batch) called directly.
Process ==
    /\ pc = "idle"
    /\ manual < MaxManual
    /\ \E k \in 1..MaxBatch :
         /\ self.processed_traces + k <= MaxTraces
         /\ \E vs \in SeqsOfLen(k) :
              /\ self' = process(self, Batch(vs))
              /\ folded' = AddFolded(vs)
    /\ last' = [op |-> "process", raised |-> FALSE]
    /\ manual' = manual + 1
    /\ UNCHANGED <<variant, pc, container, batch_size, remaining, runs>>

\* compute_convergence() called directly.
ComputeConvergence ==
    /\ pc = "idle"
    /\ manual < MaxManual
    /\ self' = Leave(compute_convergence(self))
    /\ last' = Done("compute_convergence", compute_convergence(self))
    /\ manual' = manual + 1
    /\ UNCHANGED <<variant, pc, container, batch_size, remaining, folded, runs>>

\* compute_results() called directly.
ComputeResults ==
    /\ pc = "idle"
    /\ manual < MaxManual
    /\ self' = Leave(compute_results(self))
    /\ last' = Done("compute_results", compute_results(self))
    /\ manual' = manual + 1
    /\ UNCHANGED <<variant, pc, container, batch_size, remaining, folded, runs>>

\* compute_intermediate_values(metadata) called directly.
ComputeIntermediateValues ==
    /\ pc = "idle"
    /\ \E vs \in SeqsOfLen(1) :
         compute_intermediate_values(self, vs) \in [1..1 -> 0..1]
    /\ self' = self
    /\ last' = [op |-> "compute_intermediate_values", raised |-> FALSE]
    /\ UNCHANGED <<variant, pc, container, batch_size, remaining, folded, runs, manual>>

Next ==
    \/ RunStart
    \/ RunTypeError
    \/ RunBatch
    \/ RunFinal
    \/ Process
    \/ ComputeConvergence
    \/ ComputeResults
    \/ ComputeIntermediateValues

Spec == Init /\ [][Next]_vars

(* ---------------- an engine driven through run alone ------------------ *)

InitRun == InitWith(MaxStepR)

RunStartR == RunStartWith(MaxTracesR, MaxBatchR, MaxRunsR)

NextRun ==
    \/ RunStartR
    \/ RunBatch
    \/ RunFinal

SpecRun == InitRun /\ [][NextRun]_vars

(* ------------------ the batch-size derivation alone ------------------- *)

InitBatch ==
    /\ \E c \in {None} \cup (1..MaxStepB) : self = NewAnalysis(c)
    /\ \E b \in 1..MaxBatchB :
         container = [is_container |-> TRUE, ntraces |-> 0, batch_size |-> b]
    /\ variant = "fail"
    /\ pc = "idle"
    /\ batch_size = 1
    /\ remaining = 0
    /\ folded = [v \in TraceVals |-> 0]
    /\ last = [op |-> "init", raised |-> FALSE]
    /\ runs = 0
    /\ manual = 0

\* run(container), line 125, for the container and the engine of InitBatch.
DeriveBatchSize ==
    /\ pc = "idle"
    /\ batch_size' = _compute_batch_size(self, container.batch_size)
    /\ pc' = "derived"
    /\ UNCHANGED <<self, variant, container, remaining, folded, last, runs, manual>>

NextBatch == DeriveBatchSize

SpecBatch == InitBatch /\ [][NextBatch]_vars

(* ------------------------------ claims -------------------------------- *)

\* A run call has just returned normally.
RunReturned == pc = "idle" /\ last = [op |-> "run", raised |-> FALSE]

\* The step that ends a run call that raises nothing.
RunReturns == pc = "loop" /\ pc' = "idle" /\ ~last'.raised

\* The engine was constructed, then driven by exactly one run call.
FreshSingleRun == runs = 1 /\ manual = 0

Tracking == self.convergence_step # None

Slices == self.convergence_traces.slices

CeilDiv(n, c) == (n + c - 1) \div c

\* C1. Checkpoint count: after one run of a fresh engine with
\* convergence_step c over N = k*c + r traces (0 <= r < c), whatever the
\* default batch size of the source, the ConvergenceTrace has k slices when
\* r = 0 and k + 1 slices when r > 0.
C1_CheckpointCount ==
    (RunReturned /\ FreshSingleRun /\ Tracking) =>
        LET c == self.convergence_step
            N == self.processed_traces
        IN  Len(Slices) = (N \div c) + (IF N % c > 0 THEN 1 ELSE 0)

\* C2. Batch-size invariant: for b >= c > 0 the derived batch size is c, and
\* for 1 <= b < c the derived batch size divides c.
C2_BatchSizeInvariant ==
    (pc = "derived" /\ Tracking) =>
        LET c == self.convergence_step
            b == container.batch_size
        IN  /\ b >= c => batch_size = c
            /\ b < c => c % batch_size = 0

\* C3. Batch-size formula: the derived batch size is b without a
\* convergence_step, c when b >= c, and the floor division c // (c // b) when
\* 1 <= b < c: int(c / (c // b)) agrees with floor division.
C3_BatchSizeFormula ==
    pc = "derived" =>
        LET c == self.convergence_step
            b == container.batch_size
        IN  batch_size = IF c = None THEN b
                         ELSE IF b >= c THEN c
                         ELSE c \div (c \div b)

\* C3 witness: c = 7, b = 2, where 7 / 3 is no integer, derives 2.
C3_Witness ==
    /\ pc = "derived"
    /\ self.convergence_step = 7
    /\ container.batch_size = 2
    /\ batch_size = 2

\* C4. For a fresh engine with convergence_step c and a source whose default
\* batch size b has b >= c or b divides c, one run over N >= 1 traces fires
\* its checkpoints exactly at processed_traces = c, 2c, ..., floor(N/c)*c
\* (the slices recorded when the loop ends), and the run ends with ceil(N/c)
\* slices, the last one recorded at N.
C4_ScenarioGeneralised ==
    [][(/\ RunReturns
        /\ FreshSingleRun
        /\ Tracking
        /\ container.ntraces >= 1
        /\ \/ container.batch_size >= self.convergence_step
           \/ self.convergence_step % container.batch_size = 0)
       => LET c == self.convergence_step
              N == container.ntraces
          IN  /\ self.slice_at = [i \in 1..(N \div c) |-> i * c]
              /\ self'.slice_at =
                   [i \in 1..CeilDiv(N, c) |-> IF i * c <= N THEN i * c ELSE N]
              /\ Len(self'.convergence_traces.slices) = CeilDiv(N, c)]_vars

\* C4 witness: the scenario scaled by 100 (N = 10, b = 1, c = 3): checkpoints
\* at 3, 6 and 9, a final slice at 10, 4 slices.
C4_Witness ==
    /\ RunReturned
    /\ FreshSingleRun
    /\ self.convergence_step = 3
    /\ self.processed_traces = 10
    /\ self.slice_at = <<3, 6, 9, 10>>
    /\ Len(Slices) = 4

\* The number of traces of the history `folded`.
TotalFolded == SumSeq([v \in TraceVals |-> folded[v]])

\* C5. Partition independence: whenever a run has returned, whatever the
\* batch sizes, the convergence_step and the calls (earlier runs, direct
\* process calls) that folded the traces, the Results are the reduction of
\* all the traces folded so far folded in one call, at the same
\* processed_traces.
C5_PartitionIndependence ==
    RunReturned =>
        /\ self.processed_traces = TotalFolded
        /\ self.results = OneShotResults

\* C5 witness: the traces were split over two runs and a direct process call,
\* with convergence tracked.
C5_Witness ==
    /\ RunReturned
    /\ runs = 2
    /\ manual > 0
    /\ Tracking
    /\ self.processed_traces = MaxTraces
    /\ self.results = OneShotResults
    /\ Len(Slices) >= 2

\* C6. Unconditional final reduction: whenever run returns normally,
\* whatever the convergence state and the calls before it, Results and
\* Scores are the reduction and the discriminant of the accumulator as it is,
\* with no fold since they were computed.
C6_UnconditionalFinal ==
    RunReturned =>
        /\ compute(self).exc = NoExc
        /\ self.results = compute(self).value
        /\ self.scores = Discriminant(compute(self).value)
        /\ self.reduced

\* C6 witness: a run returned with the span partly filled, after direct calls.
C6_Witness ==
    /\ RunReturned
    /\ manual > 0
    /\ Tracking
    /\ Len(self._batches_processed) > 1
    /\ self.results.kind = "Value"
    /\ self.reduced

\* C6 witness of the other convergence states: no tracking.
C6_WitnessNoTracking ==
    /\ RunReturned
    /\ ~Tracking
    /\ self.results.kind = "Value"

\* C7. With convergence tracked, when a run that folded at least one batch
\* returns, the last slice of the ConvergenceTrace is the final Scores and was
\* recorded at the final processed_traces.
C7_FinalStateInTrace ==
    [][(RunReturns /\ Tracking /\ container.ntraces >= 1)
       => /\ self'.convergence_traces.slices # <<>>
          /\ self'.convergence_traces.slices[Len(self'.convergence_traces.slices)] = self'.scores
          /\ self'.slice_at[Len(self'.slice_at)] = self'.processed_traces]_vars

\* C7 witness: a run ended short of a full convergence step after its last
\* checkpoint, and the last slice is the final Scores.
C7_Witness ==
    /\ RunReturned
    /\ Tracking
    /\ Len(self._batches_processed) > 1
    /\ self.processed_traces - self._batches_processed[1] < self.convergence_step
    /\ self._batches_processed[1] > 0
    /\ Slices # <<>>
    /\ Slices[Len(Slices)] = self.scores
    /\ self.slice_at[Len(self.slice_at)] = self.processed_traces

\* C8. Trace-count invariants: processed_traces is the number of traces
\* folded, never decreases, and is at least every entry of _batches_processed
\* (checkpoint_marks), which is never empty and is non-decreasing.
C8_TraceCountInvariants ==
    /\ [](LET bp == self._batches_processed
          IN  /\ self.processed_traces = TotalFolded
              /\ bp # <<>>
              /\ \A i \in 1..Len(bp) : bp[i] <= self.processed_traces
              /\ \A i \in 1..(Len(bp) - 1) : bp[i] <= bp[i + 1])
    /\ [][self'.processed_traces >= self.processed_traces]_vars

\* C8 witness: marks recorded by run and by direct calls, after a checkpoint.
C8_Witness ==
    /\ pc = "idle"
    /\ manual > 0
    /\ runs > 0
    /\ Len(self._batches_processed) >= 3
    /\ self._batches_processed[1] > 0
    /\ self.processed_traces > self._batches_processed[1]

\* C9. Idempotent reduction: a compute_results call made when compute_results
\* has run since the last fold leaves Results, Scores and all other engine
\* state as they were.
C9_IdempotentReduction ==
    [][(/\ last'.op = "compute_results"
        /\ manual' = manual + 1
        /\ self.reduced)
       => /\ ~last'.raised
          /\ self'.results = self.results
          /\ self'.scores = self.scores
          /\ self' = self]_vars

\* C9 witness: two compute_results calls in a row on an engine that folded
\* traces and tracks convergence.
C9_Witness ==
    /\ last = [op |-> "compute_results", raised |-> FALSE]
    /\ manual >= 2
    /\ self.reduced
    /\ self.results.kind = "Value"
    /\ self.convergence_traces.alloc
    /\ self.processed_traces > 0

\* C10. No-tracking is permanent: with convergence_step = None the
\* ConvergenceTrace stays unallocated and _batches_processed stays [0], and no
\* compute_convergence call, direct or in run's loop, changes Results or Scores
\* or reduces the accumulator.
C10_NoTrackingPermanent ==
    /\ [](~Tracking =>
            /\ ~self.convergence_traces.alloc
            /\ Slices = <<>>
            /\ self._batches_processed = <<0>>)
    /\ [][(~Tracking /\ last'.op = "compute_convergence" /\ manual' = manual + 1)
           => self' = self /\ ~last'.raised]_vars
    /\ [][(~Tracking /\ pc = "loop" /\ pc' = "loop")
           => /\ ~self'.reduced
              /\ self'.results = self.results
              /\ self'.scores = self.scores]_vars

\* C10 witness: an engine without tracking after every kind of call.
C10_Witness ==
    /\ ~Tracking
    /\ last.op = "compute_convergence"
    /\ runs = MaxRuns
    /\ manual = MaxManual
    /\ self.processed_traces > 0
    /\ self.results.kind = "Value"
    /\ ~self.reduced
    /\ ~self.convergence_traces.alloc
    /\ self._batches_processed = <<0>>

\* A direct call of the named method completes in this step.
DirectCall(op) == pc = "idle" /\ last'.op = op /\ manual' = manual + 1

\* C11. run on an object that is no Container raises a type error before any
\* batch is folded and leaves the whole engine (processed_traces, accumulator,
\* checkpoint marks, ConvergenceTrace, Results, Scores) as it was: no final
\* reduction is made.
C11_RunTypeErrorFrame ==
    [][(pc = "idle" /\ pc' = "idle" /\ last'.op = "run")
       => /\ last'.raised
          /\ self' = self
          /\ folded' = folded]_vars

\* C11 witness: run raised on an engine whose Results are stale after a fold,
\* and they are still stale.
C11_Witness ==
    /\ pc = "idle"
    /\ last = [op |-> "run", raised |-> TRUE]
    /\ self.processed_traces > 0
    /\ ~self.reduced
    /\ Tracking
    /\ Len(self._batches_processed) > 1

\* C12. With tracking enabled a compute_convergence call appends
\* processed_traces to the marks; if and only if processed_traces minus the
\* first mark is >= convergence_step it then adds exactly one slice (the
\* recomputed Scores), recomputes Results and Scores and sets the marks to
\* [processed_traces]; otherwise it adds no slice and leaves Results and
\* Scores untouched.
C12_ComputeConvergenceStep ==
    [][(DirectCall("compute_convergence") /\ Tracking)
       => LET p == self.processed_traces
              bp == self._batches_processed
          IN  /\ ~last'.raised
              /\ IF p - bp[1] >= self.convergence_step
                 THEN /\ self'._batches_processed = <<p>>
                      /\ self'.results = compute(self).value
                      /\ self'.scores = Discriminant(compute(self).value)
                      /\ self'.reduced
                      /\ self'.convergence_traces.slices = Append(Slices, self'.scores)
                 ELSE /\ self'._batches_processed = Append(bp, p)
                      /\ self'.convergence_traces = self.convergence_traces
                      /\ self'.results = self.results
                      /\ self'.scores = self.scores
                      /\ self'.reduced = self.reduced]_vars

\* C12 witness: a direct compute_convergence call fired a checkpoint.
C12_Witness ==
    /\ last = [op |-> "compute_convergence", raised |-> FALSE]
    /\ Tracking
    /\ self._batches_processed = <<self.processed_traces>>
    /\ self.processed_traces > 0
    /\ runs = 0
    /\ Len(Slices) = 1

\* C12 witness of the other branch: a direct call that only extended the span.
C12_WitnessNoCheckpoint ==
    /\ last = [op |-> "compute_convergence", raised |-> FALSE]
    /\ Tracking
    /\ Len(self._batches_processed) = 2
    /\ self.processed_traces > 0
    /\ ~self.reduced
    /\ Slices = <<>>

\* C13. Checkpoints never skipped and never drifting: in one run of a fresh
\* engine with convergence_step c, whatever the default batch size, when the
\* loop ends a checkpoint slice has been recorded at exactly
\* processed_traces = m*c for every m >= 1 with m*c <= N, and nowhere else.
C13_CheckpointsOnMultiples ==
    (pc = "loop" /\ remaining = 0 /\ FreshSingleRun /\ Tracking) =>
        LET c == self.convergence_step
            N == container.ntraces
        IN  self.slice_at = [i \in 1..(N \div c) |-> i * c]

\* C14. For every convergence_step c and default batch size b with
\* 1 <= b < c the derived batch size is no larger than b.
C14_DerivedAtMostBase ==
    (pc = "derived" /\ Tracking /\ container.batch_size < self.convergence_step)
        => batch_size <= container.batch_size

\* C14 as amended: for every convergence_step c and default batch size b with
\* 1 <= b < c the derived batch size is no smaller than b, and smaller than
\* 2b.
C14_DerivedAtLeastBase ==
    (pc = "derived" /\ Tracking /\ container.batch_size < self.convergence_step)
        => /\ batch_size >= container.batch_size
           /\ batch_size < 2 * container.batch_size

\* C14 witness: c = 3, b = 2 derives 3, larger than b.
C14_Witness ==
    /\ pc = "derived"
    /\ self.convergence_step = 3
    /\ container.batch_size = 2
    /\ batch_size = 3

\* C15. A single fold in run never passes more than one checkpoint: with
\* tracking enabled the derived batch size is between 1 and convergence_step
\* c, and for an engine driven through run alone (one run or several) the span
\* processed_traces - first mark at the moment a checkpoint fires in the loop
\* is >= c and < 2c.
C15_OneCheckpointPerFold ==
    [][(pc = "loop" /\ pc' = "loop" /\ Tracking)
       => LET c == self.convergence_step
              span == self'.processed_traces - self._batches_processed[1]
          IN  /\ batch_size >= 1
              /\ batch_size <= c
              /\ self'.processed_traces - self.processed_traces <= c
              /\ Len(self'.slice_at) <= Len(self.slice_at) + 1
              /\ Len(self'.slice_at) > Len(self.slice_at) => (span >= c /\ span < 2 * c)
              /\ Len(self'.slice_at) = Len(self.slice_at) => span < c]_vars

\* C15 witness: in a second run a checkpoint fired with a span above c
\* (c = 5, derived batch size 2, span 6).
C15_Witness ==
    /\ pc = "loop"
    /\ runs = 2
    /\ self.convergence_step = 5
    /\ batch_size = 2
    /\ self._batches_processed = <<self.processed_traces>>
    /\ self.slice_at # <<>>
    /\ self.slice_at[Len(self.slice_at)] = self.processed_traces
    /\ self.processed_traces % 5 # 0

\* C16. The final reduction never duplicates a checkpoint: in any sequence of
\* runs on one engine, also runs whose source yields no batch, no two slices
\* of the ConvergenceTrace are recorded at the same processed_traces.
C16_NoDuplicateSlice ==
    \A i, j \in 1..Len(self.slice_at) :
        i < j => self.slice_at[i] < self.slice_at[j]

\* C17. process frame: a process call folds the batch into the accumulator
\* and, with tracking enabled, allocates the ConvergenceTrace with zero slices
\* if it was unallocated; it changes neither the marks, nor Results, nor
\* Scores, nor the slices of an allocated ConvergenceTrace, and leaves Results
\* and Scores stale.
C17_ProcessFrame ==
    [][DirectCall("process")
       => /\ ~last'.raised
          /\ self'.processed_traces > self.processed_traces
          /\ self'.processed_traces - self.processed_traces = TotalFolded' - TotalFolded
          /\ self'.convergence_traces.alloc = (self.convergence_traces.alloc \/ Tracking)
          /\ self'.convergence_traces.slices = Slices
          /\ self'.slice_at = self.slice_at
          /\ self'._batches_processed = self._batches_processed
          /\ self'.results = self.results
          /\ self'.scores = self.scores
          /\ self'.convergence_step = self.convergence_step
          /\ ~self'.reduced]_vars

\* C17 witness: a process call on an engine that had just reduced, with an
\* allocated ConvergenceTrace holding a slice: Results are now stale.
C17_Witness ==
    /\ last = [op |-> "process", raised |-> FALSE]
    /\ Tracking
    /\ Len(Slices) >= 1
    /\ self.results.kind = "Value"
    /\ self.results.den < self.processed_traces
    /\ ~self.reduced

\* C17 witness of the allocation: the first process call of a tracking engine.
C17_WitnessAllocates ==
    /\ last = [op |-> "process", raised |-> FALSE]
    /\ Tracking
    /\ runs = 0
    /\ manual = 1
    /\ self.convergence_traces = [alloc |-> TRUE, slices |-> <<>>]
    /\ self.results = NoneArray

\* C18. compute_results changes nothing but Results and Scores,
\* compute_intermediate_values changes no engine state, and
\* compute_convergence changes neither the accumulator nor processed_traces.
C18_ReductionFrame ==
    [][/\ DirectCall("compute_results")
          => /\ self'.accumulator = self.accumulator
             /\ self'.processed_traces = self.processed_traces
             /\ self'._batches_processed = self._batches_processed
             /\ self'.convergence_traces = self.convergence_traces
             /\ self'.convergence_step = self.convergence_step
             /\ folded' = folded
       /\ (pc = "idle" /\ last'.op = "compute_intermediate_values")
          => self' = self /\ folded' = folded
       /\ DirectCall("compute_convergence")
          => /\ self'.accumulator = self.accumulator
             /\ self'.processed_traces = self.processed_traces
             /\ folded' = folded]_vars

\* C18 witness: a compute_results call that changed Results on an engine
\* with folded traces, marks and slices.
C18_Witness ==
    /\ last = [op |-> "compute_results", raised |-> FALSE]
    /\ Tracking
    /\ self.processed_traces > 0
    /\ self.accumulator > 0
    /\ Len(self._batches_processed) > 1
    /\ Len(Slices) >= 1
    /\ self.results.den = self.processed_traces
    /\ self.slice_at[Len(self.slice_at)] < self.processed_traces

\* C19. Span bound: with tracking enabled the last mark minus the first mark
\* is below convergence_step after every compute_convergence call, and the
\* first mark is 0 until a checkpoint fired by compute_convergence sets it to
\* the processed_traces of that moment; no other step, the final reduction of
\* run included, changes it.
C19_SpanBound ==
    /\ [](Tracking =>
            LET bp == self._batches_processed
            IN  bp[Len(bp)] - bp[1] < self.convergence_step)
    /\ [][Tracking =>
            LET fired == /\ DirectCall("compute_convergence") \/ (pc = "loop" /\ pc' = "loop")
                         /\ Len(self'.slice_at) = Len(self.slice_at) + 1
            IN  IF fired
                THEN self'._batches_processed[1] = self'.processed_traces
                ELSE self'._batches_processed[1] = self._batches_processed[1]]_vars

\* C19 witness: after a checkpoint and a later final-reduction slice, a
\* compute_convergence call returned with the span still starting at the
\* checkpoint.
C19_Witness ==
    /\ last = [op |-> "compute_convergence", raised |-> FALSE]
    /\ Tracking
    /\ runs >= 1
    /\ Len(self.slice_at) >= 2
    /\ self._batches_processed[1] > 0
    /\ self._batches_processed[1] = self.slice_at[Len(self.slice_at) - 1]
    /\ self.slice_at[Len(self.slice_at)] > self._batches_processed[1]
    /\ Len(self._batches_processed) >= 3

\* C20. Slices are never stale and the trace is append-only: every step
\* leaves the recorded slices in place and adds at most one, and an added
\* slice is the Scores just computed from the accumulator at the
\* processed_traces of that moment.
C20_FreshAppendOnly ==
    [][/\ Len(self'.convergence_traces.slices) >= Len(Slices)
       /\ Len(self'.convergence_traces.slices) <= Len(Slices) + 1
       /\ \A i \in 1..Len(Slices) : self'.convergence_traces.slices[i] = Slices[i]
       /\ Len(self'.convergence_traces.slices) = Len(Slices) + 1
          => /\ self'.convergence_traces.slices[Len(Slices) + 1]
                  = Discriminant(compute(self').value)
             /\ self'.convergence_traces.slices[Len(Slices) + 1] = self'.scores
             /\ self'.reduced
             /\ self'.slice_at = Append(self.slice_at, self'.processed_traces)]_vars

\* C20 witness: slices appended by a checkpoint and by a final reduction,
\* each the Scores of its own moment.
C20_Witness ==
    /\ RunReturned
    /\ Len(Slices) >= 2
    /\ Slices[1] # Slices[2]
    /\ self.slice_at[1] < self.slice_at[2]
    /\ self._batches_processed[1] = self.slice_at[1]
    /\ Slices[Len(Slices)] = self.scores

====
